---- MODULE Spec2Model ----
(***************************************************************************)
(* The session synchronisation layer of SonicLine:                         *)
(* backend/app/websocket.py, class ConnectionManager and the coroutine     *)
(* websocket_endpoint.                                                     *)
(*                                                                         *)
(* Every connection is served by one asyncio task running                  *)
(* websocket_endpoint; the reaper (cleanup_inactive_sessions) is one more  *)
(* task.  asyncio is cooperative: a task runs without interruption from    *)
(* one await to the next.  Each action below completes the await a task is *)
(* suspended at (accept, receive_text, send_text, sleep) and runs the      *)
(* task's code up to its next await.                                       *)
(*                                                                         *)
(* Python objects whose identity matters are the lists held in the         *)
(* registry dicts: a `for` loop keeps iterating the list object it         *)
(* started on, also after the dict entry was deleted or rebound to a new   *)
(* list.  Nothing can reach such a list any more, so the iterator then     *)
(* runs over a frozen copy (Iterator.live = FALSE).                        *)
(***************************************************************************)
EXTENDS Integers, Sequences, FiniteSets, TLC

(***************************************************************************)
(* Bounds of the model.                                                    *)
(***************************************************************************)
\* Number of connections (WebSocket objects) the server accepts in a run.
MaxConns == 2
\* Number of inbound frames received in a run, all connections together.
MaxEvents == 1
\* Last value of the clock.
MaxTime == 2
\* The history limit, websocket.py:134/135 and 148/149 (100 in the source),
\* scaled so that eviction happens within MaxHistoryEvents frames.
MAX_HISTORY == 2
\* Number of inbound frames in the runs of SpecHistory.
MaxHistoryEvents == 3

\* Number of inbound frames in the runs of SpecErrors.
MaxErrorEvents == 2
\* Number of inbound frames in the runs of SpecDevices.
MaxDeviceEvents == 3
\* Number of inbound frames in the runs of SpecForward.
MaxForwardEvents == 2

\* Inactivity threshold of the reaper, websocket.py:208 (24 * 60 * 60 s).
\* The clock of the model counts days.
INACTIVITY_LIMIT == 1

Conns == 1..MaxConns
\* websocket_endpoint's default session id (websocket.py:234) and one more.
Sessions == {"default", "s1"}
Devices == {"d1"}
Times == 0..MaxTime

(***************************************************************************)
(* JSON values as json.loads returns them: a tag and, for objects, a       *)
(* function from keys to values.                                           *)
(***************************************************************************)
Obj(f) == [t |-> "dict", v |-> f]
JList == [t |-> "list", v |-> <<>>]
JStr(s) == [t |-> "str", v |-> s]
JNone == [t |-> "None", v |-> <<>>]
EmptyDict == [k \in {} |-> JNone]
EmptyObj == Obj(EmptyDict)

IsDict(x) == x.t = "dict"
\* dict.get(key, default)
Get(d, key, default) == IF key \in DOMAIN d.v THEN d.v[key] ELSE default
\* Mutant of Truthy: every value counts as true.
Truthy_Always(x) == TRUE

\* Python truthiness of a JSON value
Truthy(x) ==
    CASE x.t = "None" -> FALSE
      [] x.t = "str" -> x.v # ""
      [] x.t = "int" -> x.v # 0
      [] x.t = "list" -> x.v # <<>>
      [] x.t = "dict" -> DOMAIN x.v # {}
      [] OTHER -> TRUE

\* class SocketEventType
ACTION_USED == "action_used"
NEW_MESSAGE == "new_message"
VOICE_COMMAND == "voice_command"
CONTEXT_UPDATE == "context_update"
TOOL_USED == "tool_used"
SESSION_JOINED == "session_joined"
SESSION_LEFT == "session_left"

NoFrame == [text |-> "none"]
\* An inbound text frame: a JSON document, or text json.loads rejects.
Text(value) == [text |-> "json", value |-> value]
Garbage == [text |-> "garbage"]
JSONDecodeError == [t |-> "JSONDecodeError", v |-> <<>>]
JInt(n) == [t |-> "int", v |-> n]
JArr(seq) == [t |-> "list", v |-> seq]
\* datetime.now().isoformat()
IsoFormat(t) == [t |-> "isoformat", v |-> t]
Frame(type, payload) == Obj([type |-> JStr(type), payload |-> payload])

\* The text of a JSON object as a client may spell it: its members, key and
\* value, in the order written, a key possibly more than once, and with or
\* without insignificant white space.
ObjectText(members, spaced) == [text |-> "object", members |-> members, spaced |-> spaced]
\* The dict json.loads builds from the members: a later member replaces an
\* earlier one of the same key.
LoadedMembers(members) ==
    [k \in {members[i][1] : i \in 1..Len(members)} |->
        LET last == CHOOSE i \in 1..Len(members) :
                        /\ members[i][1] = k
                        /\ \A j \in (i + 1)..Len(members) : members[j][1] # k
        IN  members[last][2]]

\* json.loads (websocket.py:240)
json_loads(data) ==
    IF data.text = "json" THEN data.value
    ELSE IF data.text = "object" THEN Obj(LoadedMembers(data.members))
    ELSE JSONDecodeError

\* json.dumps of a dict (websocket.py:166): one member per key, default
\* separators
MembersOf(f) ==
    LET keys == CHOOSE q \in [1..Cardinality(DOMAIN f) -> DOMAIN f] :
                    \A i, j \in 1..Cardinality(DOMAIN f) : q[i] = q[j] => i = j
    IN  [i \in 1..Cardinality(DOMAIN f) |-> <<keys[i], f[keys[i]]>>]
json_dumps(value) == ObjectText(MembersOf(value.v), FALSE)

\* The frames a client may send as its k-th frame of the run; message and
\* action payloads carry k, so that every payload is distinguishable.
Payload(k) == Obj([id |-> JInt(k)])
InboundFrames(k) ==
    {Garbage, Text(JList)}
    \cup {Text(Obj([payload |-> Payload(k)])), Text(Obj([type |-> JStr("")]))}
    \cup {Text(Frame(SESSION_JOINED, Obj([deviceId |-> JStr(d)]))) : d \in Devices}
    \cup {Text(Frame(SESSION_LEFT, Obj([deviceId |-> JStr(d)]))) : d \in Devices}
    \cup {Text(Frame(SESSION_JOINED, EmptyObj))}
    \cup {Text(Frame(SESSION_JOINED, JStr("x"))), Text(Frame(SESSION_LEFT, JStr("x")))}
    \cup {Text(Frame(type, Payload(k))) :
            type \in {ACTION_USED, NEW_MESSAGE, TOOL_USED, VOICE_COMMAND}}

(***************************************************************************)
(* Python dicts and lists.                                                 *)
(***************************************************************************)
NoDict == [k \in {} |-> <<>>]
Put(d, key, value) == [k \in DOMAIN d \cup {key} |-> IF k = key THEN value ELSE d[k]]
Del(d, keys) == [k \in DOMAIN d \ keys |-> d[k]]
Range(seq) == {seq[i] : i \in 1..Len(seq)}
\* list.remove(x): the first occurrence
Remove(seq, x) ==
    LET i == CHOOSE j \in 1..Len(seq) : seq[j] = x /\ \A h \in 1..(j - 1) : seq[h] # x
    IN  SubSeq(seq, 1, i - 1) \o SubSeq(seq, i + 1, Len(seq))
\* seq[-n:]
LastN(seq, n) == IF Len(seq) <= n THEN seq ELSE SubSeq(seq, Len(seq) - n + 1, Len(seq))
Count(seq, x) == Cardinality({i \in 1..Len(seq) : seq[i] = x})

\* Mutants of LimitHistory: the slice keeps one entry too many; the slice
\* keeps the oldest entries.
LimitHistory_OneMore(history) ==
    IF Len(history) > MAX_HISTORY + 1 THEN LastN(history, MAX_HISTORY + 1) ELSE history
LimitHistory_Oldest(history) ==
    IF Len(history) > MAX_HISTORY THEN SubSeq(history, 1, MAX_HISTORY) ELSE history

\* websocket.py:134-135 and 148-149: the list after the append, limited
LimitHistory(history) ==
    IF Len(history) > MAX_HISTORY THEN LastN(history, MAX_HISTORY) ELSE history

(***************************************************************************)
(* State.                                                                  *)
(***************************************************************************)
VARIABLES
    \* ConnectionManager's dicts (websocket.py:25-33)
    active_connections, active_devices, session_messages, session_actions,
    session_activity,
    \* datetime.now() in days; the number of frames received
    now, nEvents,
    \* per connection: whether the peer is still there
    open,
    \* per connection task: where it is suspended, and its locals
    pc, session_id, message, connection, iter,
    \* history variables: the frames each peer received, how each task ended,
    \* each task's last inbound frame, each task's current or last broadcast
    \* (with the connections whose task had ended when it started),
    \* the payloads handled per session since its creation, and when a
    \* session was last attached to or sent an event
    received, ended, lastIn, bc, log_messages, log_actions, lastTouch

registry == <<active_connections, active_devices, session_messages,
              session_actions, session_activity>>
locals == <<pc, session_id, message, connection, iter>>
ghosts == <<received, ended, lastIn, bc, log_messages, log_actions, lastTouch>>
vars == <<registry, now, nEvents, open, locals, ghosts>>

\* A Python list iterator: the list it runs over and the next index.
NoIter == [live |-> FALSE, over |-> "none", list |-> <<>>, idx |-> 0]
LiveIter(over) == [live |-> TRUE, over |-> over, list |-> <<>>, idx |-> 0]
NoBroadcast == [state |-> "none", ev |-> 0, session |-> "default", start |-> <<>>,
                stayed |-> {}, tried |-> <<>>, got |-> <<>>, disturbed |-> FALSE,
                finished |-> {}]

\* ConnectionManager.__init__ (websocket.py:23-36); no task has started
Init ==
    /\ active_connections = NoDict
    /\ active_devices = NoDict
    /\ session_messages = NoDict
    /\ session_actions = NoDict
    /\ session_activity = NoDict
    /\ now = 0
    /\ nEvents = 0
    /\ open = [c \in Conns |-> FALSE]
    /\ pc = [c \in Conns |-> "idle"]
    /\ session_id = [c \in Conns |-> "default"]
    /\ message = [c \in Conns |-> NoFrame]
    /\ connection = [c \in Conns |-> 0]
    /\ iter = [c \in Conns |-> NoIter]
    /\ received = [c \in Conns |-> <<>>]
    /\ ended = [c \in Conns |-> "running"]
    /\ lastIn = [c \in Conns |-> [ev |-> 0, data |-> NoFrame]]
    /\ bc = [c \in Conns |-> NoBroadcast]
    /\ log_messages = [s \in Sessions |-> <<>>]
    /\ log_actions = [s \in Sessions |-> <<>>]
    /\ lastTouch = [s \in Sessions |-> 0]

(***************************************************************************)
(* ConnectionManager.handle_event up to its first await, as a function of  *)
(* the registry.  The result holds the dicts as the code leaves them, the  *)
(* exception it raised if any, the frame it goes on to broadcast (NoFrame  *)
(* when it returns without one) and the dict entry it rebound to a new     *)
(* list.                                                                   *)
(***************************************************************************)
NoRebound == [over |-> "none", old |-> <<>>]
Outcome(exc, activity, devices, messages, actions, out, rebound) ==
    [exc |-> exc, activity |-> activity, devices |-> devices, messages |-> messages,
     actions |-> actions, out |-> out, rebound |-> rebound]

\* Mutant of Touch: the event does not refresh the session's activity.
Touch_Skipped(activity, s, t) == activity

\* Mutant of Touch: only a session that has an entry is refreshed.
Touch_Existing(activity, s, t) ==
    IF s \in DOMAIN activity THEN Put(activity, s, t) ELSE activity

\* websocket.py:87-88
Touch(activity, s, t) == Put(activity, s, t)

\* Mutant of DeviceEvent: a join appends the device id without looking for
\* it in the list.
DeviceEvent_NoDedup(type, payload, s, activity) ==
    IF ~IsDict(payload)
    THEN Outcome("AttributeError", activity, active_devices, session_messages,
                 session_actions, NoFrame, NoRebound)
    ELSE IF s \notin DOMAIN active_devices
    THEN Outcome("KeyError", activity, active_devices, session_messages,
                 session_actions, NoFrame, NoRebound)
    ELSE
      LET device_id == Get(payload, "deviceId", JNone)
          present == device_id \in Range(active_devices[s])
          list == IF type = SESSION_JOINED
                  THEN IF Truthy(device_id)
                       THEN Append(active_devices[s], device_id)
                       ELSE active_devices[s]
                  ELSE IF Truthy(device_id) /\ present
                       THEN Remove(active_devices[s], device_id)
                       ELSE active_devices[s]
      IN  Outcome("none", activity, Put(active_devices, s, list), session_messages,
                  session_actions,
                  Frame(type, Obj([deviceId |-> device_id,
                                   timestamp |-> Get(payload, "timestamp", IsoFormat(now)),
                                   sessionId |-> JStr(s),
                                   activeDevices |-> JArr(list)])),
                  NoRebound)

\* Mutant of DeviceEvent: a leave removes the device id without looking for
\* it in the list, and list.remove raises when it is not there.
DeviceEvent_RemoveRaises(type, payload, s, activity) ==
    IF ~IsDict(payload)
    THEN Outcome("AttributeError", activity, active_devices, session_messages,
                 session_actions, NoFrame, NoRebound)
    ELSE IF s \notin DOMAIN active_devices
    THEN Outcome("KeyError", activity, active_devices, session_messages,
                 session_actions, NoFrame, NoRebound)
    ELSE
      LET device_id == Get(payload, "deviceId", JNone)
          present == device_id \in Range(active_devices[s])
          list == IF type = SESSION_JOINED
                  THEN IF Truthy(device_id) /\ ~present
                       THEN Append(active_devices[s], device_id)
                       ELSE active_devices[s]
                  ELSE IF Truthy(device_id) /\ present
                       THEN Remove(active_devices[s], device_id)
                       ELSE active_devices[s]
      IN  IF type = SESSION_LEFT /\ Truthy(device_id) /\ ~present
          THEN Outcome("ValueError", activity, active_devices, session_messages,
                       session_actions, NoFrame, NoRebound)
          ELSE Outcome("none", activity, Put(active_devices, s, list), session_messages,
                       session_actions,
                       Frame(type, Obj([deviceId |-> device_id,
                                        timestamp |-> Get(payload, "timestamp",
                                                          IsoFormat(now)),
                                        sessionId |-> JStr(s),
                                        activeDevices |-> JArr(list)])),
                       NoRebound)

\* websocket.py:96-110 (SESSION_JOINED) and 113-127 (SESSION_LEFT)
DeviceEvent(type, payload, s, activity) ==
    IF ~IsDict(payload)
    THEN Outcome("AttributeError", activity, active_devices, session_messages,
                 session_actions, NoFrame, NoRebound)
    ELSE IF s \notin DOMAIN active_devices
    THEN Outcome("KeyError", activity, active_devices, session_messages,
                 session_actions, NoFrame, NoRebound)
    ELSE
      LET device_id == Get(payload, "deviceId", JNone)
          present == device_id \in Range(active_devices[s])
          list == IF type = SESSION_JOINED
                  THEN IF Truthy(device_id) /\ ~present
                       THEN Append(active_devices[s], device_id)
                       ELSE active_devices[s]
                  ELSE IF Truthy(device_id) /\ present
                       THEN Remove(active_devices[s], device_id)
                       ELSE active_devices[s]
      IN  Outcome("none", activity, Put(active_devices, s, list), session_messages,
                  session_actions,
                  Frame(type, Obj([deviceId |-> device_id,
                                   timestamp |-> Get(payload, "timestamp", IsoFormat(now)),
                                   sessionId |-> JStr(s),
                                   activeDevices |-> JArr(list)])),
                  NoRebound)

\* Mutant of HistoryEvent: the entry is rebound to a list of the new payload
\* alone.
HistoryEvent_Overwrite(type, payload, s, activity) ==
    IF s \notin DOMAIN session_messages
    THEN Outcome("KeyError", activity, active_devices, session_messages,
                 session_actions, NoFrame, NoRebound)
    ELSE IF type = ACTION_USED
    THEN Outcome("none", activity, active_devices, session_messages,
                 Put(session_actions, s, <<payload>>), Frame(type, payload), NoRebound)
    ELSE Outcome("none", activity, active_devices,
                 Put(session_messages, s, <<payload>>), session_actions,
                 Frame(type, payload), NoRebound)

\* Mutant of HistoryEvent: the payload is broadcast but not stored.
HistoryEvent_NoStore(type, payload, s, activity) ==
    IF s \notin DOMAIN session_messages
    THEN Outcome("KeyError", activity, active_devices, session_messages,
                 session_actions, NoFrame, NoRebound)
    ELSE Outcome("none", activity, active_devices, session_messages, session_actions,
                 Frame(type, payload), NoRebound)

\* websocket.py:130-141 (ACTION_USED) and 144-155 (NEW_MESSAGE)
HistoryEvent(type, payload, s, activity) ==
    LET history == IF type = ACTION_USED THEN session_actions ELSE session_messages
    IN  IF s \notin DOMAIN history
        THEN Outcome("KeyError", activity, active_devices, session_messages,
                     session_actions, NoFrame, NoRebound)
        ELSE
          LET appended == Append(history[s], payload)
              limited == Put(history, s, LimitHistory(appended))
              rebound == IF Len(appended) > MAX_HISTORY
                         THEN [over |-> IF type = ACTION_USED THEN "actions" ELSE "messages",
                               old |-> appended]
                         ELSE NoRebound
          IN  IF type = ACTION_USED
              THEN Outcome("none", activity, active_devices, session_messages, limited,
                           Frame(type, payload), rebound)
              ELSE Outcome("none", activity, active_devices, limited, session_actions,
                           Frame(type, payload), rebound)

\* Mutant of handle_event: a frame of any other kind is rebuilt from its
\* type and payload, as a tool_used frame is.
handle_event_Rebuild(data, s) ==
    IF ~IsDict(data)
    THEN Outcome("AttributeError", session_activity, active_devices, session_messages,
                 session_actions, NoFrame, NoRebound)
    ELSE
      LET event_type == Get(data, "type", JNone)
          payload == Get(data, "payload", EmptyObj)
          activity == Touch(session_activity, s, now)
      IN  IF ~Truthy(event_type)
          THEN Outcome("none", activity, active_devices, session_messages,
                       session_actions, NoFrame, NoRebound)
          ELSE IF event_type \in {JStr(SESSION_JOINED), JStr(SESSION_LEFT)}
          THEN DeviceEvent(event_type.v, payload, s, activity)
          ELSE IF event_type \in {JStr(ACTION_USED), JStr(NEW_MESSAGE)}
          THEN HistoryEvent(event_type.v, payload, s, activity)
          ELSE Outcome("none", activity, active_devices, session_messages,
                       session_actions,
                       Obj([type |-> event_type, payload |-> payload]), NoRebound)

\* websocket.py:83-166
handle_event(data, s) ==
    IF ~IsDict(data)
    THEN Outcome("AttributeError", session_activity, active_devices, session_messages,
                 session_actions, NoFrame, NoRebound)
    ELSE
      LET event_type == Get(data, "type", JNone)
          payload == Get(data, "payload", EmptyObj)
          activity == Touch(session_activity, s, now)
      IN  IF ~Truthy(event_type)
          THEN Outcome("none", activity, active_devices, session_messages,
                       session_actions, NoFrame, NoRebound)
          ELSE IF event_type \in {JStr(SESSION_JOINED), JStr(SESSION_LEFT)}
          THEN DeviceEvent(event_type.v, payload, s, activity)
          ELSE IF event_type \in {JStr(ACTION_USED), JStr(NEW_MESSAGE)}
          THEN HistoryEvent(event_type.v, payload, s, activity)
          ELSE IF event_type = JStr(TOOL_USED)
          THEN Outcome("none", activity, active_devices, session_messages,
                       session_actions, Frame(TOOL_USED, payload), NoRebound)
          ELSE Outcome("none", activity, active_devices, session_messages,
                       session_actions, data, NoRebound)

\* Mutant of disconnect: the connections whose peer has gone are removed
\* along with the task's own.
disconnect_Sweep(connections, websocket, s) ==
    IF s \in DOMAIN connections /\ websocket \in Range(connections[s])
    THEN Put(connections, s, SelectSeq(connections[s], LAMBDA d : d # websocket /\ open[d]))
    ELSE connections

\* Mutant of disconnect: nothing is removed.
disconnect_Skipped(connections, websocket, s) == connections

\* Mutant of disconnect: the session's list is emptied.
disconnect_ClearSession(connections, websocket, s) ==
    IF s \in DOMAIN connections /\ websocket \in Range(connections[s])
    THEN Put(connections, s, <<>>)
    ELSE connections

\* Mutant of disconnect: "clean up empty sessions" deletes the entry.
disconnect_DropEmpty(connections, websocket, s) ==
    IF s \in DOMAIN connections /\ websocket \in Range(connections[s])
    THEN IF Remove(connections[s], websocket) = <<>>
         THEN Del(connections, {s})
         ELSE Put(connections, s, Remove(connections[s], websocket))
    ELSE connections

\* ConnectionManager.disconnect (websocket.py:59-68): the new active_connections
disconnect(connections, websocket, s) ==
    IF s \in DOMAIN connections /\ websocket \in Range(connections[s])
    THEN Put(connections, s, Remove(connections[s], websocket))
    ELSE connections

\* The list a task's iterator runs over.
IterList(it, s) ==
    IF ~it.live THEN it.list
    ELSE CASE it.over = "connections" -> active_connections[s]
           [] it.over = "messages" -> session_messages[s]
           [] it.over = "actions" -> session_actions[s]

\* The iterators of the other tasks after the entry `over` of session s was
\* rebound or deleted while its list was `old`.
Frozen(it, old) == [it EXCEPT !.live = FALSE, !.list = old]
FreezeIters(self, over, s, old) ==
    [d \in Conns |->
        IF d # self /\ iter[d].live /\ iter[d].over = over /\ session_id[d] = s
        THEN Frozen(iter[d], old) ELSE iter[d]]

(***************************************************************************)
(* The steps of a connection task.  A step result is the task's next       *)
(* position and locals.                                                    *)
(***************************************************************************)
Suspended(at, msg, conn, it) == [pc |-> at, message |-> msg, connection |-> conn, iter |-> it]
\* back in the receive loop, websocket.py:238
Receiving == Suspended("receive", NoFrame, 0, NoIter)

\* websocket.py:172-180
SessionInfo(s, devices, messages, actions) ==
    Frame("session_info", Obj([sessionId |-> JStr(s),
                               activeDevices |-> JArr(devices),
                               messageCount |-> JInt(Len(messages)),
                               actionCount |-> JInt(Len(actions))]))

\* websocket.py:190-194, entering the loop; a KeyError is caught at 196
StartActions(s) ==
    IF s \notin DOMAIN session_actions \/ session_actions[s] = <<>>
    THEN Receiving
    ELSE Suspended("send_action", Frame(ACTION_USED, session_actions[s][1]), 0,
                   [LiveIter("actions") EXCEPT !.idx = 1])

\* websocket.py:183-187, entering the loop; a KeyError is caught at 196
StartMessages(s) ==
    IF s \notin DOMAIN session_messages
    THEN Receiving
    ELSE IF session_messages[s] = <<>>
    THEN StartActions(s)
    ELSE Suspended("send_message", Frame(NEW_MESSAGE, session_messages[s][1]), 0,
                   [LiveIter("messages") EXCEPT !.idx = 1])

\* websocket.py:183 and 190: the loop asks its iterator for the next entry
NextEntry(it, s) ==
    LET list == IterList(it, s)
    IN  IF it.idx < Len(list)
        THEN Suspended(IF it.over = "messages" THEN "send_message" ELSE "send_action",
                       Frame(IF it.over = "messages" THEN NEW_MESSAGE ELSE ACTION_USED,
                             list[it.idx + 1]),
                       0, [it EXCEPT !.idx = @ + 1])
        ELSE IF it.over = "messages" THEN StartActions(s) ELSE Receiving

\* Mutant of AfterHistorySend: the failed send is not caught.
AfterHistorySend_Raise(at, it, s, sent) ==
    IF ~sent THEN Suspended("done", NoFrame, 0, NoIter)
    ELSE IF at = "send_session_info" THEN StartMessages(s)
    ELSE NextEntry(it, s)

\* send_session_history after the send it awaited (websocket.py:168-197):
\* a failed send raises, which line 196 catches
AfterHistorySend(at, it, s, sent) ==
    IF ~sent THEN Receiving
    ELSE IF at = "send_session_info" THEN StartMessages(s)
    ELSE NextEntry(it, s)

\* Mutant of StartBroadcast: the handler does not wait for the broadcast
\* and returns to the receive loop.
StartBroadcast_Detached(msg, s) == Receiving

\* Mutant of StartBroadcast: the loop starts on the list of the default
\* session, whatever the session id.
StartBroadcast_Default(msg, s) ==
    IF "default" \notin DOMAIN active_connections \/ active_connections["default"] = <<>>
    THEN Receiving
    ELSE Suspended("broadcast", msg, active_connections["default"][1],
                   [LiveIter("connections") EXCEPT !.idx = 1])

\* broadcast entering its loop (websocket.py:74-78); no caller passes
\* `exclude`, so the test at line 76 holds for every connection
StartBroadcast(msg, s) ==
    IF s \notin DOMAIN active_connections \/ active_connections[s] = <<>>
    THEN Receiving
    ELSE Suspended("broadcast", msg, active_connections[s][1],
                   [LiveIter("connections") EXCEPT !.idx = 1])

\* Mutant of AfterBroadcastSend: the failed send is not caught.
AfterBroadcastSend_Raise(msg, it, s, sent) ==
    LET list == IterList(it, s)
    IN  IF ~sent THEN Suspended("done", NoFrame, 0, NoIter)
        ELSE IF it.idx < Len(list)
        THEN Suspended("broadcast", msg, list[it.idx + 1], [it EXCEPT !.idx = @ + 1])
        ELSE Receiving

\* broadcast after the send it awaited (websocket.py:75-81): a failed send
\* is caught at 79 and the loop goes on
AfterBroadcastSend(msg, it, s, sent) ==
    LET list == IterList(it, s)
    IN  IF it.idx < Len(list)
        THEN Suspended("broadcast", msg, list[it.idx + 1], [it EXCEPT !.idx = @ + 1])
        ELSE Receiving

\* websocket.py:244-246
ErrorFrame == Obj([error |-> JStr("Invalid JSON format")])

\* Mutant of OnJSONDecodeError: the frame is dropped without an answer.
OnJSONDecodeError_Silent == Receiving

\* websocket_endpoint's handler of json.JSONDecodeError up to its await
\* (websocket.py:242-246)
OnJSONDecodeError == Suspended("send_error", ErrorFrame, 0, NoIter)

\* What a peer has received: the frame, as the value whose json.dumps text
\* was sent, and for the record how it was sent
\* (history replay, broadcast or send_personal_message), by which task and
\* for which inbound frame.
Delivery(frame, via, by, ev) == [frame |-> frame, via |-> via, by |-> by, ev |-> ev]
\* websocket.send_text: the peer gets the frame if it is still there
Deliver(to, entry) ==
    IF open[to] THEN [received EXCEPT ![to] = Append(@, entry)] ELSE received

Resume(c, r) ==
    /\ pc' = [pc EXCEPT ![c] = r.pc]
    /\ message' = [message EXCEPT ![c] = r.message]
    /\ connection' = [connection EXCEPT ![c] = r.connection]

\* broadcasts in progress in session s see its connection list change
Disturb(b, s, gone) ==
    IF b.state = "running" /\ b.session = s
    THEN [b EXCEPT !.stayed = @ \ gone, !.disturbed = TRUE] ELSE b

\* websocket_endpoint line 235: accept, ConnectionManager.connect (38-57) and
\* send_session_history up to its first send (168-180)
connect(c, s) ==
    /\ pc[c] = "idle"
    /\ \A d \in Conns : d < c => pc[d] # "idle"
    /\ LET fresh == s \notin DOMAIN active_connections
           connections == IF fresh THEN <<>> ELSE active_connections[s]
           devices == IF fresh THEN <<>> ELSE active_devices[s]
           messages == IF fresh THEN <<>> ELSE session_messages[s]
           actions == IF fresh THEN <<>> ELSE session_actions[s]
       IN  /\ active_connections' = Put(active_connections, s, Append(connections, c))
           /\ active_devices' = Put(active_devices, s, devices)
           /\ session_messages' = Put(session_messages, s, messages)
           /\ session_actions' = Put(session_actions, s, actions)
           /\ session_activity' = Put(session_activity, s, now)
           /\ Resume(c, Suspended("send_session_info",
                                  SessionInfo(s, devices, messages, actions), 0, NoIter))
           /\ log_messages' = IF fresh THEN [log_messages EXCEPT ![s] = <<>>] ELSE log_messages
           /\ log_actions' = IF fresh THEN [log_actions EXCEPT ![s] = <<>>] ELSE log_actions
    /\ session_id' = [session_id EXCEPT ![c] = s]
    /\ open' = [open EXCEPT ![c] = TRUE]
    /\ lastTouch' = [lastTouch EXCEPT ![s] = now]
    /\ bc' = [d \in Conns |-> Disturb(bc[d], s, {})]
    /\ UNCHANGED <<now, nEvents, iter, received, ended, lastIn>>

\* send_session_history resumed after a send (websocket.py:168-197)
send_session_history(c) ==
    /\ pc[c] \in {"send_session_info", "send_message", "send_action"}
    /\ LET r == AfterHistorySend(pc[c], iter[c], session_id[c], open[c])
       IN  /\ Resume(c, r)
           /\ iter' = [iter EXCEPT ![c] = r.iter]
    /\ received' = Deliver(c, Delivery(message[c], "history", c, 0))
    /\ UNCHANGED <<registry, now, nEvents, open, session_id, ended, lastIn, bc,
                   log_messages, log_actions, lastTouch>>

\* A task ends in one of websocket_endpoint's handlers (websocket.py:247-251):
\* disconnect, and the server closes the socket when the endpoint returns
End(c, exc) ==
    /\ active_connections' = disconnect(active_connections, c, session_id[c])
    /\ Resume(c, Suspended("done", NoFrame, 0, NoIter))
    /\ ended' = [ended EXCEPT ![c] = exc]
    /\ open' = [open EXCEPT ![c] = FALSE]
    /\ bc' = IF active_connections' = active_connections THEN bc
             ELSE [d \in Conns |-> Disturb(bc[d], session_id[c], {c})]

IsKind(data, type) == IsDict(data) /\ Get(data, "type", JNone) = JStr(type)

\* websocket_endpoint, lines 238-246: a frame arrives; json.loads,
\* handle_event up to its first await
receive_text(c, data) ==
    /\ pc[c] = "receive" /\ open[c]
    /\ nEvents' = nEvents + 1
    /\ lastIn' = [lastIn EXCEPT ![c] = [ev |-> nEvents + 1, data |-> data]]
    /\ LET s == session_id[c]
           loaded == json_loads(data)
           payload == Get(loaded, "payload", EmptyObj)
       IN  IF loaded = JSONDecodeError
           THEN /\ Resume(c, OnJSONDecodeError)
                /\ UNCHANGED <<registry, open, iter, ended, bc, log_messages,
                               log_actions, lastTouch>>
           ELSE
             LET r == handle_event(loaded, s)
                 next == StartBroadcast(r.out, s)
             IN  /\ active_devices' = r.devices
                 /\ session_messages' = r.messages
                 /\ session_actions' = r.actions
                 /\ session_activity' = r.activity
                 /\ lastTouch' = IF IsDict(loaded) THEN [lastTouch EXCEPT ![s] = now]
                                 ELSE lastTouch
                 /\ log_messages' =
                        IF IsKind(loaded, NEW_MESSAGE) /\ s \in DOMAIN session_messages
                        THEN [log_messages EXCEPT ![s] = Append(@, payload)]
                        ELSE log_messages
                 /\ log_actions' =
                        IF IsKind(loaded, ACTION_USED) /\ s \in DOMAIN session_actions
                        THEN [log_actions EXCEPT ![s] = Append(@, payload)]
                        ELSE log_actions
                 /\ IF r.exc # "none"
                    THEN /\ End(c, r.exc)
                         /\ iter' = [iter EXCEPT ![c] = NoIter]
                    ELSE IF r.out = NoFrame
                    THEN /\ Resume(c, Receiving)
                         /\ UNCHANGED <<active_connections, open, iter, ended, bc>>
                    ELSE /\ Resume(c, next)
                         /\ iter' = [FreezeIters(c, r.rebound.over, s, r.rebound.old)
                                       EXCEPT ![c] = next.iter]
                         /\ bc' = [bc EXCEPT ![c] =
                                     [state |-> IF next.pc = "broadcast" THEN "running"
                                                ELSE "returned",
                                      ev |-> nEvents + 1, session |-> s,
                                      start |-> IF s \in DOMAIN active_connections
                                                THEN active_connections[s] ELSE <<>>,
                                      stayed |-> IF s \in DOMAIN active_connections
                                                 THEN Range(active_connections[s]) ELSE {},
                                      tried |-> <<>>, got |-> <<>>, disturbed |-> FALSE,
                                      finished |-> {e \in Conns : ended[e] # "running"}]]
                         /\ UNCHANGED <<active_connections, open, ended>>
    /\ UNCHANGED <<now, session_id, received>>

\* websocket_endpoint, lines 238 and 247-248: receive_text raises
\* WebSocketDisconnect
receive_disconnect(c) ==
    /\ pc[c] = "receive" /\ ~open[c]
    /\ End(c, "WebSocketDisconnect")
    /\ iter' = [iter EXCEPT ![c] = NoIter]
    /\ UNCHANGED <<active_devices, session_messages, session_actions, session_activity,
                   now, nEvents, session_id, received, lastIn, log_messages,
                   log_actions, lastTouch>>

\* broadcast resumed after a send (websocket.py:75-81)
broadcast(c) ==
    /\ pc[c] = "broadcast"
    /\ LET to == connection[c]
           r == AfterBroadcastSend(message[c], iter[c], session_id[c], open[to])
       IN  /\ Resume(c, r)
           /\ iter' = [iter EXCEPT ![c] = r.iter]
           /\ received' = Deliver(to, Delivery(message[c], "broadcast", c, bc[c].ev))
           /\ bc' = [bc EXCEPT ![c].tried = Append(@, to),
                               ![c].got = IF open[to] THEN Append(@, to) ELSE @,
                               ![c].state = CASE r.pc = "broadcast" -> "running"
                                              [] r.pc = "receive" -> "returned"
                                              [] OTHER -> "raised"]
    /\ UNCHANGED <<registry, now, nEvents, open, session_id, ended, lastIn,
                   log_messages, log_actions, lastTouch>>

\* send_personal_message resumed after its send (websocket.py:70-71 and
\* 244-246); a failed send raises into the handler at 249
send_personal_message(c) ==
    /\ pc[c] = "send_error"
    /\ received' = Deliver(c, Delivery(message[c], "personal", c, lastIn[c].ev))
    /\ IF open[c]
       THEN /\ Resume(c, Receiving)
            /\ UNCHANGED <<active_connections, open, ended, bc>>
       ELSE End(c, "SendError")
    /\ UNCHANGED <<active_devices, session_messages, session_actions, session_activity,
                   now, nEvents, session_id, iter, lastIn, log_messages,
                   log_actions, lastTouch>>

\* The client goes away.
peer_close(c) ==
    /\ pc[c] \notin {"idle", "done"} /\ open[c]
    /\ open' = [open EXCEPT ![c] = FALSE]
    /\ UNCHANGED <<registry, now, nEvents, locals, ghosts>>

\* Mutant of InactiveSessions: a session idle for exactly the limit counts.
InactiveSessions_AtLeast(current_time) ==
    {s \in DOMAIN session_activity :
        current_time - session_activity[s] >= INACTIVITY_LIMIT}

\* Mutant of InactiveSessions: a session with connections is not inactive.
InactiveSessions_Unattached(current_time) ==
    {s \in DOMAIN session_activity :
        /\ current_time - session_activity[s] > INACTIVITY_LIMIT
        /\ s \in DOMAIN active_connections => active_connections[s] = <<>>}

\* websocket.py:207-209
InactiveSessions(current_time) ==
    {s \in DOMAIN session_activity :
        current_time - session_activity[s] > INACTIVITY_LIMIT}

\* One run of cleanup_inactive_sessions' loop (websocket.py:202-229)
cleanup_inactive_sessions ==
    LET inactive_sessions == InactiveSessions(now)
    IN  /\ active_connections' = Del(active_connections, inactive_sessions)
        /\ active_devices' = Del(active_devices, inactive_sessions)
        /\ session_messages' = Del(session_messages, inactive_sessions)
        /\ session_actions' = Del(session_actions, inactive_sessions)
        /\ session_activity' = Del(session_activity, inactive_sessions)
        /\ iter' = [d \in Conns |->
                      IF iter[d].live /\ session_id[d] \in inactive_sessions
                      THEN Frozen(iter[d], IterList(iter[d], session_id[d]))
                      ELSE iter[d]]
        /\ bc' = [d \in Conns |->
                    IF bc[d].session \in inactive_sessions
                       /\ bc[d].session \in DOMAIN active_connections
                    THEN Disturb(bc[d], bc[d].session, Conns) ELSE bc[d]]
        /\ log_messages' = [s \in Sessions |->
                              IF s \in inactive_sessions THEN <<>> ELSE log_messages[s]]
        /\ log_actions' = [s \in Sessions |->
                             IF s \in inactive_sessions THEN <<>> ELSE log_actions[s]]
        /\ UNCHANGED <<now, nEvents, open, pc, session_id, message, connection,
                       received, ended, lastIn, lastTouch>>

\* Time passes.
tick ==
    /\ now < MaxTime
    /\ now' = now + 1
    /\ UNCHANGED <<registry, nEvents, open, locals, ghosts>>

\* Any client behaviour, any schedule of the tasks.
Next ==
    \/ \E c \in Conns, s \in Sessions : connect(c, s)
    \/ \E c \in Conns : send_session_history(c)
    \/ \E c \in Conns, data \in InboundFrames(nEvents + 1) :
          nEvents < MaxEvents /\ receive_text(c, data)
    \/ \E c \in Conns : receive_disconnect(c)
    \/ \E c \in Conns : broadcast(c)
    \/ \E c \in Conns : send_personal_message(c)
    \/ \E c \in Conns : peer_close(c)
    \/ cleanup_inactive_sessions
    \/ tick

Spec == Init /\ [][Next]_vars

\* The same with time passing and the reaper running: its loop
\* (websocket.py:201-229) catches every exception and sleeps for an hour, so
\* it runs again and again for as long as the server does.
SpecFair == Spec /\ WF_vars(tick) /\ WF_vars(cleanup_inactive_sessions)

\* Clients of one session that send messages and actions only, for longer.
HistoryFrames(k) ==
    {Text(Frame(type, Payload(k))) : type \in {ACTION_USED, NEW_MESSAGE}}

NextHistory ==
    \/ \E c \in Conns : connect(c, "default")
    \/ \E c \in Conns : send_session_history(c)
    \/ \E c \in Conns, data \in HistoryFrames(nEvents + 1) :
          nEvents < MaxHistoryEvents /\ receive_text(c, data)
    \/ \E c \in Conns : receive_disconnect(c)
    \/ \E c \in Conns : broadcast(c)
    \/ \E c \in Conns : peer_close(c)
    \/ cleanup_inactive_sessions
    \/ tick

SpecHistory == Init /\ [][NextHistory]_vars

\* Clients of one session that send malformed frames and messages.
ErrorFrames(k) ==
    {Garbage, Text(JList), Text(Frame(SESSION_JOINED, JStr("x"))),
     Text(Frame(SESSION_LEFT, JStr("x"))), Text(Frame(NEW_MESSAGE, Payload(k)))}

NextErrors ==
    \/ \E c \in Conns : connect(c, "default")
    \/ \E c \in Conns : send_session_history(c)
    \/ \E c \in Conns, data \in ErrorFrames(nEvents + 1) :
          nEvents < MaxErrorEvents /\ receive_text(c, data)
    \/ \E c \in Conns : receive_disconnect(c)
    \/ \E c \in Conns : broadcast(c)
    \/ \E c \in Conns : send_personal_message(c)
    \/ \E c \in Conns : peer_close(c)
    \/ cleanup_inactive_sessions
    \/ tick

SpecErrors == Init /\ [][NextErrors]_vars

\* Clients of one session whose devices join and leave, with or without a
\* device id, and that send messages.
JoinDevices == {"d1", "d2"}
DeviceFrames(k) ==
    {Text(Frame(SESSION_JOINED, Obj([deviceId |-> JStr(d)]))) : d \in JoinDevices}
    \cup {Text(Frame(SESSION_LEFT, Obj([deviceId |-> JStr(d)]))) : d \in JoinDevices}
    \cup {Text(Frame(SESSION_JOINED, EmptyObj)), Text(Frame(NEW_MESSAGE, Payload(k)))}

NextDevices ==
    \/ \E c \in Conns : connect(c, "default")
    \/ \E c \in Conns : send_session_history(c)
    \/ \E c \in Conns, data \in DeviceFrames(nEvents + 1) :
          nEvents < MaxDeviceEvents /\ receive_text(c, data)
    \/ \E c \in Conns : receive_disconnect(c)
    \/ \E c \in Conns : broadcast(c)
    \/ \E c \in Conns : peer_close(c)

SpecDevices == Init /\ [][NextDevices]_vars

\* Clients of one session that send frames of kinds handle_event does not
\* interpret, in several spellings, and tool_used frames.
ForwardFrames(k) ==
    {Text(Frame(VOICE_COMMAND, Payload(k))),
     Text(Obj([type |-> JInt(7)])),
     ObjectText(<< <<"type", JStr(CONTEXT_UPDATE)>> >>, TRUE),
     ObjectText(<< <<"type", JStr(TOOL_USED)>>, <<"extra", JInt(k)>>,
                   <<"payload", Payload(k)>>, <<"type", JStr("custom")>> >>, FALSE),
     ObjectText(<< <<"payload", Payload(k)>>, <<"type", JStr(TOOL_USED)>>,
                   <<"extra", JInt(k)>> >>, TRUE)}

NextForward ==
    \/ \E c \in Conns : connect(c, "default")
    \/ \E c \in Conns : send_session_history(c)
    \/ \E c \in Conns, data \in ForwardFrames(nEvents + 1) :
          nEvents < MaxForwardEvents /\ receive_text(c, data)
    \/ \E c \in Conns : receive_disconnect(c)
    \/ \E c \in Conns : broadcast(c)
    \/ \E c \in Conns : peer_close(c)

SpecForward == Init /\ [][NextForward]_vars

TypeOK ==
    /\ DOMAIN active_connections \subseteq Sessions
    /\ \A c \in Conns : pc[c] \in {"idle", "send_session_info", "send_message",
                                   "send_action", "receive", "broadcast",
                                   "send_error", "done"}
    /\ now \in Times

(***************************************************************************)
(* The claims.                                                             *)
(***************************************************************************)

\* C1: in every reachable state, message_history and action_history of every
\* session in the registry hold at most MAX_HISTORY (100) entries.
C1_HistoryBounded ==
    /\ \A s \in DOMAIN session_messages : Len(session_messages[s]) <= MAX_HISTORY
    /\ \A s \in DOMAIN session_actions : Len(session_actions[s]) <= MAX_HISTORY

\* C1 witness: a full history after more than MAX_HISTORY events of its kind.
C1_Witness ==
    \E s \in DOMAIN session_messages :
        /\ Len(log_messages[s]) > MAX_HISTORY
        /\ Len(session_messages[s]) = MAX_HISTORY

\* C2: after k action_used (new_message) events handled for a session since
\* it was created, action_history (message_history) is the last
\* min(k, MAX_HISTORY) payloads in the order they were handled.
C2_HistoryIsLastHandled ==
    /\ \A s \in DOMAIN session_actions :
          session_actions[s] = LastN(log_actions[s], MAX_HISTORY)
    /\ \A s \in DOMAIN session_messages :
          session_messages[s] = LastN(log_messages[s], MAX_HISTORY)

\* C2 witness: MAX_HISTORY + 1 actions were handled and the history holds
\* the 2nd to the last of them.
C2_Witness ==
    \E s \in DOMAIN session_actions :
        /\ Len(log_actions[s]) = MAX_HISTORY + 1
        /\ session_actions[s] = SubSeq(log_actions[s], 2, MAX_HISTORY + 1)

(***************************************************************************)
(* Vocabulary of the claims below.                                         *)
(***************************************************************************)
TypeOf(frame) == Get(frame, "type", JNone)
Replaying(c) == pc[c] \in {"send_session_info", "send_message", "send_action"}
\* how often peer d received the broadcast of inbound frame number ev
BroadcastCount(d, ev) ==
    Cardinality({i \in 1..Len(received[d]) :
                    received[d][i].via = "broadcast" /\ received[d][i].ev = ev})
\* whether peer c received an error frame in answer to its frame number ev
ErrorAnswered(c, ev) ==
    \E i \in 1..Len(received[c]) :
        received[c][i].frame = ErrorFrame /\ received[c][i].ev = ev
\* a dict entry of session s is the same before and after the step
SameEntry(before, after, s) ==
    /\ s \in DOMAIN before <=> s \in DOMAIN after
    /\ s \in DOMAIN before => after[s] = before[s]
InRegistry(s) == s \in DOMAIN active_connections

\* C3 (as claimed): what a connection receives starts with the one
\* session_info frame, then the replayed new_message frames, then the
\* replayed action_used frames, and no broadcast reaches it before its
\* replay has finished.
C3_ReplayBeforeLive ==
    \A c \in Conns :
        LET r == received[c]
        IN  /\ r # <<>> => r[1].via = "history" /\ TypeOf(r[1].frame) = JStr("session_info")
            /\ \A i \in 2..Len(r) : TypeOf(r[i].frame) # JStr("session_info")
            /\ \A i, j \in 1..Len(r) :
                  i < j /\ r[j].via = "history" =>
                      /\ r[i].via = "history"
                      /\ TypeOf(r[i].frame) = JStr(ACTION_USED)
                            => TypeOf(r[j].frame) = JStr(ACTION_USED)
            /\ Replaying(c) => \A i \in 1..Len(r) : r[i].via # "broadcast"

\* C4: a broadcast during which the session's connection list does not
\* change tries every connection of the list once, in list order; a failed
\* send is caught, every connection whose peer is there receives the frame
\* once, and broadcast returns without raising.
C4_BroadcastReachesAll ==
    \A c \in Conns :
        /\ bc[c].state # "raised"
        /\ pc[c] = "broadcast" <=> bc[c].state = "running"
        /\ ~bc[c].disturbed =>
              /\ bc[c].tried = SubSeq(bc[c].start, 1, Len(bc[c].tried))
              /\ bc[c].state = "returned" =>
                    /\ bc[c].tried = bc[c].start
                    /\ \A d \in Range(bc[c].start) :
                          open[d] => BroadcastCount(d, bc[c].ev) = 1

\* C4 witness: a broadcast to two connections has returned; the send to
\* the first failed and the second received the frame.
C4_Witness ==
    \E c \in Conns :
        /\ bc[c].state = "returned" /\ ~bc[c].disturbed
        /\ Len(bc[c].start) = 2
        /\ bc[c].got = <<bc[c].start[2]>>
        /\ BroadcastCount(bc[c].start[2], bc[c].ev) = 1

\* C5 (as claimed): when a broadcast has returned, every connection that
\* was attached to the session from its start to its end, and whose peer is
\* there, has received the frame exactly once.
C5_FanoutSafe ==
    \A c \in Conns :
        bc[c].state = "returned" =>
            \A d \in bc[c].stayed : open[d] => BroadcastCount(d, bc[c].ev) = 1

\* C6: a reaper run removes from all five dicts every session whose
\* last_activity is more than the limit before the run's now, and leaves
\* every other session with its connections, devices, histories and
\* last_activity as they were.
C6_ReaperRun ==
    [][cleanup_inactive_sessions =>
        \A s \in Sessions :
            IF s \in DOMAIN session_activity
               /\ now - session_activity[s] > INACTIVITY_LIMIT
            THEN /\ s \notin DOMAIN active_connections'
                 /\ s \notin DOMAIN active_devices'
                 /\ s \notin DOMAIN session_messages'
                 /\ s \notin DOMAIN session_actions'
                 /\ s \notin DOMAIN session_activity'
            ELSE /\ SameEntry(active_connections, active_connections', s)
                 /\ SameEntry(active_devices, active_devices', s)
                 /\ SameEntry(session_messages, session_messages', s)
                 /\ SameEntry(session_actions, session_actions', s)
                 /\ SameEntry(session_activity, session_activity', s)]_vars

\* C6 witness: the session of an accepted connection is gone while the
\* other session, with its connection, is still there.
C6_Witness ==
    \E c, d \in Conns :
        /\ pc[c] # "idle" /\ ~InRegistry(session_id[c])
        /\ pc[d] # "idle" /\ InRegistry(session_id[d])
        /\ d \in Range(active_connections[session_id[d]])
        /\ now - session_activity[session_id[d]] = INACTIVITY_LIMIT

\* C7: when a task ends on the transport's disconnect, its connection is
\* removed from its session's list and nothing else changes: the session
\* stays, also with an empty list, and devices, histories and last_activity
\* are as before; an attach to a session that exists is answered with the
\* devices and history counts the session had.
C7_DetachOnly ==
    /\ [][\A c \in Conns :
            ended[c] = "running" /\ ended'[c] = "WebSocketDisconnect" =>
              LET s == session_id[c]
              IN  /\ DOMAIN active_connections' = DOMAIN active_connections
                  /\ \A t \in DOMAIN active_connections :
                        active_connections'[t] =
                            IF t = s THEN SelectSeq(active_connections[t], LAMBDA d : d # c)
                            ELSE active_connections[t]
                  /\ UNCHANGED <<active_devices, session_messages, session_actions,
                                 session_activity>>]_vars
    /\ [][\A c \in Conns :
            pc[c] = "idle" /\ pc'[c] # "idle" /\ InRegistry(session_id'[c]) =>
              LET s == session_id'[c]
              IN  /\ message'[c] = SessionInfo(s, active_devices[s], session_messages[s],
                                               session_actions[s])
                  /\ UNCHANGED <<active_devices, session_messages, session_actions>>]_vars

\* C7 witness: the last connection of a session has disconnected and the
\* session is still there with its history.
C7_Witness ==
    \E c \in Conns :
        /\ ended[c] = "WebSocketDisconnect"
        /\ InRegistry(session_id[c])
        /\ active_connections[session_id[c]] = <<>>
        /\ session_messages[session_id[c]] # <<>>

\* C8: a session leaves the registry only in a reaper run, and only when
\* no attach and no event touched it for more than the limit.
C8_OnlyReaperRemoves ==
    [][\A s \in Sessions :
          InRegistry(s) /\ s \notin DOMAIN active_connections' =>
              /\ cleanup_inactive_sessions
              /\ now - lastTouch[s] > INACTIVITY_LIMIT]_vars

\* C8 witness: a connection is open on a session the reaper has removed.
C8_Witness ==
    \E c \in Conns :
        /\ pc[c] = "receive" /\ open[c]
        /\ ~InRegistry(session_id[c])
        /\ now - lastTouch[session_id[c]] > INACTIVITY_LIMIT

\* C9: a frame that is not valid JSON changes nothing in the registry and
\* starts no broadcast; its one answer is an error frame to the sender,
\* after which the connection is back in its receive loop, still attached.
C9_InvalidJSON ==
    /\ [][\A c \in Conns :
            lastIn'[c] # lastIn[c] /\ json_loads(lastIn'[c].data) = JSONDecodeError =>
              /\ pc'[c] = "send_error" /\ message'[c] = ErrorFrame
              /\ UNCHANGED <<registry, received, bc>>]_vars
    /\ [][\A c \in Conns :
            pc[c] = "send_error" /\ pc'[c] # "send_error" =>
              /\ UNCHANGED <<active_devices, session_messages, session_actions,
                             session_activity>>
              /\ \A d \in Conns \ {c} : received'[d] = received[d] /\ pc'[d] = pc[d]
              /\ IF open[c]
                 THEN /\ received'[c] = Append(received[c],
                                Delivery(ErrorFrame, "personal", c, lastIn[c].ev))
                      /\ pc'[c] = "receive"
                      /\ UNCHANGED <<active_connections, bc>>
                 ELSE received'[c] = received[c]]_vars
    /\ [](\A c \in Conns : \A i \in 1..Len(received[c]) :
            received[c][i].frame = ErrorFrame =>
              /\ received[c][i].by = c
              /\ json_loads(lastIn[c].data) = JSONDecodeError
                    \/ received[c][i].ev < lastIn[c].ev
              /\ \A j \in 1..Len(received[c]) :
                    received[c][j].ev = received[c][i].ev => j = i)

\* C9 witness: a connection got the error frame for its first frame and
\* then the broadcast of its next, valid frame.
C9_Witness ==
    \E c \in Conns :
        /\ ErrorAnswered(c, 1)
        /\ lastIn[c].ev = 2
        /\ BroadcastCount(c, 2) = 1
        /\ c \in Range(active_connections[session_id[c]])

\* the frames that do not parse as the event envelope
NotEnvelope(data) ==
    LET loaded == json_loads(data)
    IN  \/ ~IsDict(loaded)
        \/ /\ TypeOf(loaded) \in {JStr(SESSION_JOINED), JStr(SESSION_LEFT)}
           /\ ~IsDict(Get(loaded, "payload", EmptyObj))

\* C10 (as claimed): after a frame that does not parse as the event
\* envelope the task does not end, unless the peer has gone: it is about to
\* send the error frame, or has sent it and goes on receiving.
C10_MalformedKeepsLoop ==
    \A c \in Conns :
        lastIn[c].ev > 0 /\ NotEnvelope(lastIn[c].data) =>
            \/ pc[c] = "send_error"
            \/ ErrorAnswered(c, lastIn[c].ev) /\ pc[c] # "done"
            \/ ended[c] \in {"WebSocketDisconnect", "SendError"}

\* the frames that parse to an object without a kind: type missing or empty
Kindless(data) ==
    LET loaded == json_loads(data)
    IN  IsDict(loaded) /\ TypeOf(loaded) \in {JNone, JStr("")}

\* C11: a parsed frame whose type is missing or empty starts no broadcast
\* and reaches no connection; the session's connections, devices and
\* histories are as before, and the sender is back in its receive loop.
C11_KindlessDiscarded ==
    /\ [][\A c \in Conns :
            lastIn'[c] # lastIn[c] /\ Kindless(lastIn'[c].data) =>
              /\ UNCHANGED <<active_connections, active_devices, session_messages,
                             session_actions, received, bc>>
              /\ pc'[c] = "receive" /\ ended'[c] = "running"
              /\ \A d \in Conns \ {c} : pc'[d] = pc[d] /\ message'[d] = message[d]]_vars
    /\ [](\A c, d \in Conns :
            lastIn[c].ev > 0 /\ Kindless(lastIn[c].data) =>
                \A i \in 1..Len(received[d]) : received[d][i].ev # lastIn[c].ev)

\* C11 witness: two connections of one session are in their receive loops
\* after one of them sent a frame without a kind; the other has received
\* its replay only.
C11_Witness ==
    \E c, d \in Conns :
        /\ c # d /\ session_id[c] = session_id[d]
        /\ lastIn[c].ev > 0 /\ Kindless(lastIn[c].data)
        /\ pc[c] = "receive" /\ pc[d] = "receive" /\ open[c] /\ open[d]
        /\ {c, d} \subseteq Range(active_connections[session_id[c]])
        /\ received[d] # <<>>
        /\ \A i \in 1..Len(received[d]) : received[d][i].via = "history"

\* the frames that parse to an object, whatever their kind
Parsed(data) == IsDict(json_loads(data))

\* C12: handling a parsed frame of any kind sets the session's
\* last_activity to the current time, also when the handler goes on to
\* raise; a reaper run leaves every session that was attached to or sent an
\* event within the limit as it is.
C12_TouchFirst ==
    /\ [][\A c \in Conns :
            lastIn'[c] # lastIn[c] /\ Parsed(lastIn'[c].data) =>
              /\ session_id[c] \in DOMAIN session_activity'
              /\ session_activity'[session_id[c]] = now]_vars
    /\ [][cleanup_inactive_sessions =>
            \A s \in DOMAIN session_activity :
                now - lastTouch[s] <= INACTIVITY_LIMIT =>
                    /\ SameEntry(session_activity, session_activity', s)
                    /\ SameEntry(active_connections, active_connections', s)
                    /\ SameEntry(active_devices, active_devices', s)
                    /\ SameEntry(session_messages, session_messages', s)
                    /\ SameEntry(session_actions, session_actions', s)]_vars

\* C12 witness: at the last clock value a session holds the activity time
\* of a frame of an unrecognised kind or without a kind, while the session
\* of the other connection has been reaped.
C12_Witness ==
    \E c, d \in Conns :
        /\ lastIn[c].ev > 0 /\ Parsed(lastIn[c].data)
        /\ TypeOf(json_loads(lastIn[c].data)) \notin
              {JStr(SESSION_JOINED), JStr(SESSION_LEFT), JStr(ACTION_USED),
               JStr(NEW_MESSAGE), JStr(TOOL_USED)}
        /\ InRegistry(session_id[c])
        /\ session_activity[session_id[c]] = now /\ now = MaxTime
        /\ pc[d] # "idle" /\ ~InRegistry(session_id[d])

Attached(c) == InRegistry(session_id[c]) /\ c \in Range(active_connections[session_id[c]])
\* the new_message and action_used frames
Storing(data) ==
    Parsed(data) /\ TypeOf(json_loads(data)) \in {JStr(NEW_MESSAGE), JStr(ACTION_USED)}
PayloadOf(data) == Get(json_loads(data), "payload", EmptyObj)
\* the deliveries to peer d made for inbound frame number ev
DeliveriesOf(d, ev) == SelectSeq(received[d], LAMBDA e : e.ev = ev)

\* C13: when an attached connection sends new_message (action_used), the
\* payload becomes the newest entry of message_history (action_history),
\* the other history and the devices stay, and a broadcast of a frame of the
\* same kind and payload starts; when it has returned, with the connection
\* list unchanged meanwhile, every connection of the session whose peer is
\* there, the sender included, has received that frame once.
C13_StoredAndBroadcast ==
    /\ [][\A c \in Conns :
            lastIn'[c] # lastIn[c] /\ Storing(lastIn'[c].data) /\ Attached(c) =>
              LET s == session_id[c]
                  payload == PayloadOf(lastIn'[c].data)
                  type == TypeOf(json_loads(lastIn'[c].data)).v
                  before == IF type = NEW_MESSAGE THEN session_messages[s]
                            ELSE session_actions[s]
                  after == IF type = NEW_MESSAGE THEN session_messages'[s]
                           ELSE session_actions'[s]
              IN  /\ after = LastN(before \o <<payload>>, MAX_HISTORY)
                  /\ after[Len(after)] = payload
                  /\ IF type = NEW_MESSAGE THEN UNCHANGED session_actions
                     ELSE UNCHANGED session_messages
                  /\ UNCHANGED <<active_devices, active_connections>>
                  /\ pc'[c] = "broadcast"
                  /\ message'[c] = Obj([type |-> JStr(type), payload |-> payload])]_vars
    /\ [](\A c \in Conns :
            /\ bc[c].state = "returned" /\ ~bc[c].disturbed
            /\ bc[c].ev = lastIn[c].ev /\ Storing(lastIn[c].data)
            /\ c \in Range(bc[c].start)
            => \A d \in Range(bc[c].start) :
                  open[d] =>
                    /\ Len(DeliveriesOf(d, bc[c].ev)) = 1
                    /\ DeliveriesOf(d, bc[c].ev)[1].via = "broadcast"
                    /\ DeliveriesOf(d, bc[c].ev)[1].frame =
                          Obj([type |-> TypeOf(json_loads(lastIn[c].data)),
                               payload |-> PayloadOf(lastIn[c].data)]))

\* C13 witness: the second message of a session was broadcast to its two
\* connections, both received it, and it is the newest of two entries.
C13_Witness ==
    \E c, d \in Conns :
        /\ c # d /\ bc[c].state = "returned" /\ ~bc[c].disturbed
        /\ bc[c].ev = lastIn[c].ev /\ Storing(lastIn[c].data)
        /\ Range(bc[c].start) = {c, d} /\ open[c] /\ open[d]
        /\ Len(DeliveriesOf(c, bc[c].ev)) = 1 /\ Len(DeliveriesOf(d, bc[c].ev)) = 1
        /\ InRegistry(session_id[c])
        /\ Len(session_messages[session_id[c]]) = 2
        /\ session_messages[session_id[c]][2] = PayloadOf(lastIn[c].data)

\* the session_joined and session_left frames with an object payload
IsJoin(data) ==
    /\ Parsed(data) /\ TypeOf(json_loads(data)) = JStr(SESSION_JOINED)
    /\ IsDict(PayloadOf(data))
IsLeave(data) ==
    /\ Parsed(data) /\ TypeOf(json_loads(data)) = JStr(SESSION_LEFT)
    /\ IsDict(PayloadOf(data))
\* the device id such a frame carries, None without one
DeviceIdOf(data) == Get(PayloadOf(data), "deviceId", JNone)
NoDuplicates(seq) == \A i, j \in 1..Len(seq) : seq[i] = seq[j] => i = j

\* C14: a session_joined with a device id that is not in the session's
\* devices appends it; one with an id that is there, or without an id,
\* leaves the list as it is; no list of devices ever holds an id twice.
C14_DevicesDistinct ==
    /\ [](\A s \in DOMAIN active_devices : NoDuplicates(active_devices[s]))
    /\ [][\A c \in Conns :
            /\ lastIn'[c] # lastIn[c] /\ IsJoin(lastIn'[c].data)
            /\ InRegistry(session_id[c])
            => LET s == session_id[c]
                   id == DeviceIdOf(lastIn'[c].data)
               IN  active_devices'[s] =
                      IF id \notin {JNone, JStr("")} /\ id \notin Range(active_devices[s])
                      THEN active_devices[s] \o <<id>>
                      ELSE active_devices[s]]_vars

\* C14 witness: after two joins of different devices a third join repeated
\* one of them, and the session has two devices.
C14_Witness ==
    \E c \in Conns :
        /\ lastIn[c].ev = 3 /\ IsJoin(lastIn[c].data)
        /\ InRegistry(session_id[c])
        /\ Len(active_devices[session_id[c]]) = 2
        /\ DeviceIdOf(lastIn[c].data) = active_devices[session_id[c]][1]

\* C15: a session_left whose device id is not in the session's devices
\* leaves devices and both histories as they are and starts the broadcast
\* of a session_left frame that names the device and carries the unchanged
\* devices; when the broadcast has returned, with the connection list
\* unchanged meanwhile, every connection whose peer is there has received
\* that one frame.
C15_LeftAbsent ==
    /\ [][\A c \in Conns :
            /\ lastIn'[c] # lastIn[c] /\ IsLeave(lastIn'[c].data)
            /\ InRegistry(session_id[c])
            /\ DeviceIdOf(lastIn'[c].data) \notin Range(active_devices[session_id[c]])
            => LET s == session_id[c]
                   out == message'[c]
               IN  /\ UNCHANGED <<active_devices, session_messages, session_actions,
                                  active_connections>>
                   /\ pc'[c] = "broadcast" /\ ended'[c] = "running"
                   /\ TypeOf(out) = JStr(SESSION_LEFT)
                   /\ out.v["payload"].v["deviceId"] = DeviceIdOf(lastIn'[c].data)
                   /\ out.v["payload"].v["sessionId"] = JStr(s)
                   /\ out.v["payload"].v["activeDevices"] = JArr(active_devices[s])]_vars
    /\ [](\A c \in Conns :
            /\ bc[c].state = "returned" /\ ~bc[c].disturbed
            /\ bc[c].ev = lastIn[c].ev /\ IsLeave(lastIn[c].data)
            => \A d \in Range(bc[c].start) :
                  open[d] =>
                    LET got == DeliveriesOf(d, bc[c].ev)
                    IN  /\ Len(got) = 1 /\ got[1].via = "broadcast"
                        /\ TypeOf(got[1].frame) = JStr(SESSION_LEFT)
                        /\ got[1].frame.v["payload"].v["deviceId"] =
                              DeviceIdOf(lastIn[c].data)
                        /\ DeviceIdOf(lastIn[c].data) \notin
                              Range(got[1].frame.v["payload"].v["activeDevices"].v))

\* C15 witness: the session's second frame was a session_left of a device
\* other than the one device that had joined; both connections received the
\* frame with that one device in it.
C15_Witness ==
    \E c, d \in Conns :
        /\ c # d /\ bc[c].state = "returned" /\ ~bc[c].disturbed
        /\ bc[c].ev = 2 /\ lastIn[c].ev = 2 /\ IsLeave(lastIn[c].data)
        /\ Range(bc[c].start) = {c, d} /\ open[c] /\ open[d]
        /\ InRegistry(session_id[c])
        /\ Len(active_devices[session_id[c]]) = 1
        /\ DeviceIdOf(lastIn[c].data) \notin Range(active_devices[session_id[c]])
        /\ \A e \in {c, d} :
              /\ Len(DeliveriesOf(e, 2)) = 1
              /\ DeliveriesOf(e, 2)[1].frame.v["payload"].v["activeDevices"] =
                    JArr(active_devices[session_id[c]])

\* a list of devices after a join or a leave
Applied(devices, data) ==
    LET id == DeviceIdOf(data)
    IN  IF id \in {JNone, JStr("")} THEN devices
        ELSE IF IsJoin(data)
        THEN IF id \in Range(devices) THEN devices ELSE devices \o <<id>>
        ELSE SelectSeq(devices, LAMBDA x : x # id)
\* a history after a frame, which is stored if it is of the history's kind
Stored(history, data, type) ==
    IF Storing(data) /\ TypeOf(json_loads(data)) = JStr(type)
    THEN LastN(history \o <<PayloadOf(data)>>, MAX_HISTORY)
    ELSE history

\* C16: whatever the interleaving of the tasks, a step in which a
\* connection handles a frame changes the devices and histories of its
\* session by that frame's effect on what the step before left, and no
\* other step of a connection task changes them; so every payload handled
\* is in its history unless MAX_HISTORY later ones were handled.
C16_NoLostUpdate ==
    /\ [][\A s \in DOMAIN active_devices :
            LET handlers == {c \in Conns : lastIn'[c] # lastIn[c] /\ session_id[c] = s}
            IN  \/ cleanup_inactive_sessions
                \/ /\ handlers = {}
                   /\ SameEntry(active_devices, active_devices', s)
                   /\ SameEntry(session_messages, session_messages', s)
                   /\ SameEntry(session_actions, session_actions', s)
                \/ /\ handlers # {}
                   /\ {s} \subseteq DOMAIN active_devices' \cap DOMAIN session_messages'
                                   \cap DOMAIN session_actions'
                   /\ \A c \in handlers :
                        LET data == lastIn'[c].data
                        IN  /\ active_devices'[s] =
                                  IF IsJoin(data) \/ IsLeave(data)
                                  THEN Applied(active_devices[s], data)
                                  ELSE active_devices[s]
                            /\ session_messages'[s] =
                                  Stored(session_messages[s], data, NEW_MESSAGE)
                            /\ session_actions'[s] =
                                  Stored(session_actions[s], data, ACTION_USED)]_vars
    /\ [](\A s \in DOMAIN session_messages :
            \A i \in 1..Len(log_messages[s]) :
                Len(log_messages[s]) - i < MAX_HISTORY =>
                    log_messages[s][i] \in Range(session_messages[s]))
    /\ [](\A s \in DOMAIN session_actions :
            \A i \in 1..Len(log_actions[s]) :
                Len(log_actions[s]) - i < MAX_HISTORY =>
                    log_actions[s][i] \in Range(session_actions[s]))

\* C16 witness: two connections of one session each handled a join of a
\* different device and a message was handled as well; both broadcasts of
\* the joins are still running, and the session holds both devices and the
\* message.
C16_Witness ==
    \E c, d \in Conns :
        /\ c # d /\ session_id[c] = session_id[d] /\ InRegistry(session_id[c])
        /\ IsJoin(lastIn[c].data) /\ IsJoin(lastIn[d].data)
        /\ pc[c] = "broadcast" /\ pc[d] = "broadcast"
        /\ Range(active_devices[session_id[c]]) =
              {DeviceIdOf(lastIn[c].data), DeviceIdOf(lastIn[d].data)}
        /\ Len(active_devices[session_id[c]]) = 2
        /\ Len(session_messages[session_id[c]]) = 1

InAllDicts(s) ==
    /\ s \in DOMAIN active_connections /\ s \in DOMAIN active_devices
    /\ s \in DOMAIN session_messages /\ s \in DOMAIN session_actions
    /\ s \in DOMAIN session_activity

\* C17 (as claimed): when a connection whose session the reaper has removed
\* sends a frame or disconnects, the session is in the registry again
\* afterwards, in all five dicts and with no connection; an event raises
\* nothing and its task goes on.
C17_OrphanRecreates ==
    [][\A c \in Conns :
          LET s == session_id[c]
          IN  /\ lastIn'[c] # lastIn[c] /\ Parsed(lastIn'[c].data) /\ ~InRegistry(s)
                 => /\ InAllDicts(s)' /\ active_connections'[s] = <<>>
                    /\ ended'[c] = "running" /\ pc'[c] # "done"
              /\ ended[c] = "running" /\ ended'[c] = "WebSocketDisconnect" /\ ~InRegistry(s)
                 => InAllDicts(s)' /\ active_connections'[s] = <<>>]_vars

\* C18: when a task ends on an exception other than the transport's
\* disconnect, its connection is no longer in its session's list; no
\* session leaves the registry, the other sessions' entries are as before,
\* and every other connection's task is where it was, still running if it
\* was, and attached where it was.
C18_ExceptionIsDisconnect ==
    [][\A c \in Conns :
          ended[c] = "running" /\ ended'[c] \notin {"running", "WebSocketDisconnect"} =>
            LET s == session_id[c]
            IN  /\ pc'[c] = "done"
                /\ s \in DOMAIN active_connections' => c \notin Range(active_connections'[s])
                /\ DOMAIN active_connections' = DOMAIN active_connections
                /\ \A t \in Sessions \ {s} :
                      /\ SameEntry(active_connections, active_connections', t)
                      /\ SameEntry(active_devices, active_devices', t)
                      /\ SameEntry(session_messages, session_messages', t)
                      /\ SameEntry(session_actions, session_actions', t)
                      /\ SameEntry(session_activity, session_activity', t)
                /\ \A d \in Conns \ {c} :
                      /\ pc'[d] = pc[d] /\ ended'[d] = ended[d]
                      /\ \A t \in DOMAIN active_connections :
                            d \in Range(active_connections[t])
                               <=> d \in Range(active_connections'[t])]_vars

\* C18 witness: a task has ended on an AttributeError and is detached, the
\* other connection of its session is attached and receiving.
C18_Witness ==
    \E c, d \in Conns :
        /\ c # d /\ ended[c] = "AttributeError" /\ pc[c] = "done"
        /\ session_id[d] = session_id[c] /\ InRegistry(session_id[c])
        /\ active_connections[session_id[c]] = <<d>>
        /\ pc[d] = "receive" /\ ended[d] = "running"

\* the places in what peer d received of the broadcast of frame number ev
PlacesOf(d, ev) ==
    {i \in 1..Len(received[d]) :
        received[d][i].via = "broadcast" /\ received[d][i].ev = ev}

\* C19 (as claimed): when two tasks handled frames of one session one
\* after the other, a connection that has been attached since before both
\* broadcasts started receives the broadcast of the earlier frame before
\* that of the later one.
C19_SessionOrder ==
    \A c1, c2, d \in Conns :
        /\ c1 # c2 /\ bc[c1].state # "none" /\ bc[c2].state # "none"
        /\ bc[c1].session = bc[c2].session /\ bc[c1].ev < bc[c2].ev
        /\ d \in bc[c1].stayed \cap bc[c2].stayed
        => \A i \in PlacesOf(d, bc[c1].ev), j \in PlacesOf(d, bc[c2].ev) : i < j

\* the frames of a kind that handle_event does not interpret
PassThrough(data) ==
    /\ Parsed(data) /\ ~Kindless(data)
    /\ TypeOf(json_loads(data)) \notin
          {JStr(SESSION_JOINED), JStr(SESSION_LEFT), JStr(ACTION_USED),
           JStr(NEW_MESSAGE), JStr(TOOL_USED)}
\* what a peer decodes from the text of a frame sent to it
Decoded(frame) == json_loads(json_dumps(frame))

\* C20: a frame of a kind that handle_event does not interpret changes
\* neither the devices nor a history, and the text broadcast for it decodes
\* to what the inbound text decodes to, with every member and no other;
\* when the broadcast has returned, with the connection list unchanged
\* meanwhile, every connection whose peer is there has received one such
\* frame.
C20_PassThrough ==
    /\ [][\A c \in Conns :
            lastIn'[c] # lastIn[c] /\ PassThrough(lastIn'[c].data) =>
              /\ UNCHANGED <<active_devices, session_messages, session_actions,
                             active_connections>>
              /\ Attached(c) =>
                    /\ pc'[c] = "broadcast"
                    /\ Decoded(message'[c]) = json_loads(lastIn'[c].data)]_vars
    /\ [](\A c \in Conns :
            /\ bc[c].state = "returned" /\ ~bc[c].disturbed
            /\ bc[c].ev = lastIn[c].ev /\ PassThrough(lastIn[c].data)
            => \A d \in Range(bc[c].start) :
                  open[d] =>
                    /\ Len(DeliveriesOf(d, bc[c].ev)) = 1
                    /\ DeliveriesOf(d, bc[c].ev)[1].via = "broadcast"
                    /\ Decoded(DeliveriesOf(d, bc[c].ev)[1].frame) =
                          json_loads(lastIn[c].data))

\* C20 witness: a frame of a caller-defined kind, written with a member
\* besides type and payload and with the type member twice, was broadcast
\* to both connections of the session, and what they received decodes to
\* the frame with the later type and the extra member.
C20_Witness ==
    \E c, d \in Conns :
        /\ c # d /\ bc[c].state = "returned" /\ ~bc[c].disturbed
        /\ bc[c].ev = lastIn[c].ev /\ PassThrough(lastIn[c].data)
        /\ lastIn[c].data.text = "object" /\ Len(lastIn[c].data.members) = 4
        /\ Range(bc[c].start) = {c, d} /\ open[c] /\ open[d]
        /\ \A e \in {c, d} :
              /\ Len(DeliveriesOf(e, bc[c].ev)) = 1
              /\ TypeOf(Decoded(DeliveriesOf(e, bc[c].ev)[1].frame)) = JStr("custom")
              /\ DOMAIN Decoded(DeliveriesOf(e, bc[c].ev)[1].frame).v =
                    {"type", "payload", "extra"}

\* the session has an entry in none of the five dicts
Absent(s) ==
    /\ s \notin DOMAIN active_connections /\ s \notin DOMAIN active_devices
    /\ s \notin DOMAIN session_messages /\ s \notin DOMAIN session_actions
    /\ s \notin DOMAIN session_activity

\* C21: a session that was last attached to or sent an event at a time
\* more than the limit before the clock's last value, is eventually absent
\* from the registry unless it is attached to or sent an event again,
\* with or without connections in its list.
C21_StaleReclaimed ==
    \A s \in Sessions : \A t \in Times :
        t + INACTIVITY_LIMIT < MaxTime =>
            ((~Absent(s) /\ lastTouch[s] = t) ~> (Absent(s) \/ lastTouch[s] > t))

\* C21 witness: at the clock's last value a session is absent while two
\* connections that attached to it are receiving, with their peers there.
C21_Witness ==
    \E c, d \in Conns :
        /\ c # d /\ session_id[c] = session_id[d] /\ Absent(session_id[c])
        /\ pc[c] = "receive" /\ pc[d] = "receive" /\ open[c] /\ open[d]
        /\ lastTouch[session_id[c]] + INACTIVITY_LIMIT < now

\* C22: when a send of the replay fails, the task goes to its receive loop
\* without another replay frame and without ending, its connection stays
\* in the session's list, and nothing else changes; a connection that is in
\* the list at the start of a later broadcast is tried by it.
C22_ReplayFailure ==
    /\ [][\A c \in Conns :
            /\ Replaying(c) /\ ~open[c]
            /\ <<pc[c], message[c], iter[c].idx>>' # <<pc[c], message[c], iter[c].idx>>
            => /\ pc'[c] = "receive" /\ message'[c] = NoFrame
               /\ ended'[c] = "running"
               /\ received'[c] = received[c]
               /\ UNCHANGED registry]_vars
    /\ [](\A d \in Conns :
            bc[d].state = "returned" /\ ~bc[d].disturbed => bc[d].tried = bc[d].start)

\* C22 witness: a connection attached to a session with a message, its
\* peer went away after the session_info frame and the replay stopped; the
\* connection is in the list, its task waits for a frame, and a broadcast
\* that started later has tried it.
C22_Witness ==
    \E c, d \in Conns :
        /\ c # d /\ pc[c] = "receive" /\ ~open[c] /\ ended[c] = "running"
        /\ Attached(c)
        /\ Len(received[c]) = 1 /\ received[c][1].via = "history"
        /\ received[c][1].frame.v["payload"].v["messageCount"].v > 0
        /\ bc[d].state = "returned" /\ bc[d].ev = 2
        /\ c \in Range(bc[d].start) /\ c \in Range(bc[d].tried)
        /\ c \notin Range(bc[d].got)

\* C23: a step of broadcast leaves every connection list as it is; a
\* connection leaves a list only when its own task ends or the reaper
\* removes the session; so a connection whose peer has gone stays in the
\* list, and a broadcast during which the list does not change tries every
\* connection of the list once.
C23_BroadcastKeepsList ==
    /\ [][\A c \in Conns :
            pc[c] = "broadcast" /\ bc'[c].tried # bc[c].tried =>
                UNCHANGED <<active_connections, active_devices, session_messages,
                            session_actions>>]_vars
    /\ [][\A d \in Conns : \A s \in DOMAIN active_connections :
            /\ d \in Range(active_connections[s])
            /\ s \in DOMAIN active_connections' => d \notin Range(active_connections'[s])
            => \/ cleanup_inactive_sessions
               \/ ended[d] = "running" /\ ended'[d] # "running"]_vars
    /\ [](\A c \in Conns :
            bc[c].state = "returned" /\ ~bc[c].disturbed =>
                \A d \in Range(bc[c].start) : Count(bc[c].tried, d) = 1)

\* C23 witness: the second broadcast of a connection has returned; it
\* tried the other connection, whose peer has gone and which received
\* neither broadcast, and that connection is still in the list, its task
\* running.
C23_Witness ==
    \E c, d \in Conns :
        /\ c # d /\ bc[c].state = "returned" /\ bc[c].ev = 2
        /\ BroadcastCount(c, 1) = 1 /\ BroadcastCount(c, 2) = 1
        /\ BroadcastCount(d, 1) = 0 /\ BroadcastCount(d, 2) = 0
        /\ bc[c].tried = <<d, c>> /\ bc[c].got = <<c>>
        /\ ~open[d] /\ ended[d] = "running" /\ Attached(d)

\* C24: a connection whose task has ended is in no session's list, and a
\* broadcast that started after the task had ended neither has tried the
\* connection nor is about to.
C24_EndedIsDetached ==
    /\ \A c \in Conns :
          ended[c] # "running" =>
              /\ pc[c] = "done"
              /\ \A s \in DOMAIN active_connections : c \notin Range(active_connections[s])
    /\ \A d \in Conns :
          /\ bc[d].finished \cap Range(bc[d].start) = {}
          /\ bc[d].finished \cap Range(bc[d].tried) = {}
          /\ pc[d] = "broadcast" => connection[d] \notin bc[d].finished

\* C24 witness: one connection's task has ended on the transport's
\* disconnect; the other then sent a frame, and its broadcast went to
\* itself alone and has returned.
C24_Witness ==
    \E c, d \in Conns :
        /\ c # d /\ ended[c] = "WebSocketDisconnect"
        /\ session_id[c] = session_id[d]
        /\ bc[d].state = "returned" /\ bc[d].finished = {c}
        /\ bc[d].tried = <<d>> /\ bc[d].got = <<d>>
        /\ BroadcastCount(c, bc[d].ev) = 0

\* C25: a step in which a connection handles a frame leaves the entries of
\* every other session in the five dicts as they are; a frame that a
\* connection received by a broadcast was sent by a task of its own
\* session; a connection is in the list of its own session only, once.
C25_SessionsIsolated ==
    /\ [][\A c \in Conns :
            lastIn'[c] # lastIn[c] =>
                \A t \in Sessions \ {session_id[c]} :
                    /\ SameEntry(active_connections, active_connections', t)
                    /\ SameEntry(active_devices, active_devices', t)
                    /\ SameEntry(session_messages, session_messages', t)
                    /\ SameEntry(session_actions, session_actions', t)
                    /\ SameEntry(session_activity, session_activity', t)]_vars
    /\ [](\A d \in Conns : \A i \in 1..Len(received[d]) :
            /\ session_id[received[d][i].by] = session_id[d]
            /\ received[d][i].via # "broadcast" => received[d][i].by = d)
    /\ [](\A c \in Conns :
            /\ pc[c] = "broadcast" => session_id[connection[c]] = session_id[c]
            /\ \A s \in DOMAIN active_connections :
                  c \in Range(active_connections[s]) =>
                      s = session_id[c] /\ Count(active_connections[s], c) = 1)

\* C25 witness: of two connections attached to different sessions one sent
\* a message, which is in its session's history and reached it by its
\* broadcast; the other has received its session_info frame alone and its
\* session has no message.
C25_Witness ==
    \E c, d \in Conns :
        /\ session_id[c] # session_id[d] /\ Attached(c) /\ Attached(d)
        /\ open[c] /\ open[d] /\ pc[c] = "receive" /\ pc[d] = "receive"
        /\ bc[c].state = "returned" /\ BroadcastCount(c, bc[c].ev) = 1
        /\ Len(session_messages[session_id[c]]) = 1
        /\ session_messages[session_id[d]] = <<>>
        /\ Len(received[d]) = 1 /\ received[d][1].via = "history"

\* C26 (as claimed): the five dicts have the same set of session ids.
C26_SameKeys ==
    /\ DOMAIN active_devices = DOMAIN active_connections
    /\ DOMAIN session_messages = DOMAIN active_connections
    /\ DOMAIN session_actions = DOMAIN active_connections
    /\ DOMAIN session_activity = DOMAIN active_connections

\* the frames of a kind that the replay has delivered to connection c
Replayed(c, type) ==
    SelectSeq(received[c], LAMBDA e : e.via = "history" /\ TypeOf(e.frame) = JStr(type))
\* the session_info frame that connection c received
InfoOf(c) == SelectSeq(received[c], LAMBDA e : TypeOf(e.frame) = JStr("session_info"))

\* C27 (as claimed): when the replay to a connection has finished and its
\* peer is there, so that no send failed, it has received as many replayed
\* new_message frames as the messageCount of its session_info frame says,
\* and as many action_used frames as its actionCount.
C27_ReplayMatchesInfo ==
    \A c \in Conns :
        pc[c] \in {"receive", "broadcast", "send_error"} /\ open[c] /\ InfoOf(c) # <<>> =>
            LET info == InfoOf(c)[1].frame.v["payload"].v
            IN  /\ Len(Replayed(c, NEW_MESSAGE)) = info["messageCount"].v
                /\ Len(Replayed(c, ACTION_USED)) = info["actionCount"].v

\* C28 (as claimed): no connection receives the same new_message or
\* action_used frame both by its replay and by a broadcast.
C28_AtMostOnce ==
    \A c \in Conns : \A i, j \in 1..Len(received[c]) :
        /\ received[c][i].via = "history" /\ received[c][j].via = "broadcast"
        /\ TypeOf(received[c][i].frame) \in {JStr(NEW_MESSAGE), JStr(ACTION_USED)}
        => received[c][i].frame # received[c][j].frame

\* C29 (as claimed): a replay delivers at most MAX_HISTORY (100)
\* new_message frames and at most MAX_HISTORY action_used frames.
C29_ReplayBounded ==
    \A c \in Conns :
        /\ Len(Replayed(c, NEW_MESSAGE)) <= MAX_HISTORY
        /\ Len(Replayed(c, ACTION_USED)) <= MAX_HISTORY

\* the event numbers of the payloads of a history, in its order
IdsOf(history) == [i \in 1..Len(history) |-> history[i].v["id"].v]
Increasing(seq) == \A i, j \in 1..Len(seq) : i < j => seq[i] < seq[j]
\* the frames peer d received by broadcasts of task c, as event numbers
BroadcastsFrom(d, c) ==
    LET got == SelectSeq(received[d], LAMBDA e : e.via = "broadcast" /\ e.by = c)
    IN  [i \in 1..Len(got) |-> got[i].ev]

\* C30: a task reads its connection's next frame only from its receive
\* loop, when the broadcast of its previous frame has returned, having
\* tried the whole list if that did not change meanwhile; so what a peer
\* received from one sender's broadcasts is in the order of that sender's
\* frames, and the histories hold the payloads in the order handled.
C30_OneAtATime ==
    /\ [][\A c \in Conns :
            lastIn'[c] # lastIn[c] =>
                /\ pc[c] = "receive" /\ lastIn'[c].ev > lastIn[c].ev
                /\ bc[c].state \in {"none", "returned"}
                /\ bc[c].state = "returned" /\ ~bc[c].disturbed
                      => bc[c].tried = bc[c].start]_vars
    /\ [](\A c, d \in Conns : Increasing(BroadcastsFrom(d, c)))
    /\ [](\A s \in DOMAIN session_messages : Increasing(IdsOf(session_messages[s])))
    /\ [](\A s \in DOMAIN session_actions : Increasing(IdsOf(session_actions[s])))

\* C30 witness: one connection sent two actions; the other connection
\* received both broadcasts, the first frame's first, and the history holds
\* the two payloads in that order.
C30_Witness ==
    \E c, d \in Conns :
        /\ c # d /\ Len(BroadcastsFrom(d, c)) = 2
        /\ Len(BroadcastsFrom(c, c)) = 2
        /\ bc[c].state = "returned" /\ pc[c] = "receive"
        /\ InRegistry(session_id[c])
        /\ IdsOf(session_actions[session_id[c]]) = BroadcastsFrom(d, c)

====
